---- MODULE Spec2Model ----
(***************************************************************************)
(* Model of parity/params.rs: the typed configuration selectors, their     *)
(* textual encodings and the resolution functions that combine a requested *)
(* value with the persisted user defaults.                                 *)
(*                                                                         *)
(* Every function of the file is a pure operator, translated arm by arm    *)
(* from its match expression, and an action that applies it to inputs      *)
(* drawn from bounded sets.  The state is the persisted user defaults, the *)
(* call in progress and its result.                                        *)
(***************************************************************************)
EXTENDS Integers, Sequences, FiniteSets, TLC

VARIABLES user_defaults, call, result

vars == <<user_defaults, call, result>>

(***************************************************************************)
(* Bounds.                                                                 *)
(***************************************************************************)
\* Durations carried by Mode::Passive and Mode::Dark range over 1..MaxDuration.
MaxDuration == 1
\* Number of generated custom specification paths "chain<i>.json".
MaxCustom == 2

(***************************************************************************)
(* Result<T, String> and Option<T>.                                        *)
(***************************************************************************)
Ok(v) == [ok |-> TRUE, val |-> v]

Err(e) == [ok |-> FALSE, err |-> e]

Some(v) == [some |-> TRUE, val |-> v]

None == [some |-> FALSE]

(***************************************************************************)
(* Input texts.                                                            *)
(***************************************************************************)
SpecAliases ==
  {"foundation", "frontier", "homestead", "mainnet",
   "frontier-dogmatic", "homestead-dogmatic", "classic",
   "morden", "classic-testnet", "ropsten", "kovan", "testnet",
   "olympic", "expanse", "dev"}

PruningTokens == {"auto", "archive", "light", "fast", "basic"}

ResealTokens == {"none", "own", "ext", "all"}

SwitchTokens == {"on", "off", "auto"}

CustomPaths == {"chain" \o ToString(i) \o ".json" : i \in 1..MaxCustom}

\* Texts that no match arm recognises: empty, wrong case, trailing blank,
\* a path, near misses.
OtherTokens == {"", "foo/bar", "Foundation", "mainnet ", "AUTO", "On", "both"}

Tokens ==
  SpecAliases \cup PruningTokens \cup ResealTokens \cup SwitchTokens
    \cup CustomPaths \cup OtherTokens

(***************************************************************************)
(* enum SpecType                                                           *)
(***************************************************************************)
BuiltinTags ==
  {"Foundation", "Morden", "Ropsten", "Kovan", "Olympic", "Classic",
   "Expanse", "Dev"}

Builtin(t) == [tag |-> t]

Custom(s) == [tag |-> "Custom", custom |-> s]

SpecTypeSet == {Builtin(t) : t \in BuiltinTags} \cup {Custom(s) : s \in Tokens}

\* SpecType_from_str with "testnet" placed in the Morden arm.
SpecType_from_str_TestnetMorden(s) ==
  Ok(IF s \in {"foundation", "frontier", "homestead", "mainnet"}
       THEN Builtin("Foundation")
     ELSE IF s \in {"frontier-dogmatic", "homestead-dogmatic", "classic"}
       THEN Builtin("Classic")
     ELSE IF s \in {"morden", "classic-testnet", "testnet"}
       THEN Builtin("Morden")
     ELSE IF s = "ropsten" THEN Builtin("Ropsten")
     ELSE IF s = "kovan" THEN Builtin("Kovan")
     ELSE IF s = "olympic" THEN Builtin("Olympic")
     ELSE IF s = "expanse" THEN Builtin("Expanse")
     ELSE IF s = "dev" THEN Builtin("Dev")
     ELSE Custom(s))

\* impl FromStr for SpecType
SpecType_from_str(s) ==
  Ok(IF s \in {"foundation", "frontier", "homestead", "mainnet"}
       THEN Builtin("Foundation")
     ELSE IF s \in {"frontier-dogmatic", "homestead-dogmatic", "classic"}
       THEN Builtin("Classic")
     ELSE IF s \in {"morden", "classic-testnet"} THEN Builtin("Morden")
     ELSE IF s = "ropsten" THEN Builtin("Ropsten")
     ELSE IF s \in {"kovan", "testnet"} THEN Builtin("Kovan")
     ELSE IF s = "olympic" THEN Builtin("Olympic")
     ELSE IF s = "expanse" THEN Builtin("Expanse")
     ELSE IF s = "dev" THEN Builtin("Dev")
     ELSE Custom(s))

\* SpecType_fmt rendering Morden as "testnet", an alias of Kovan.
SpecType_fmt_MordenTestnet(self) ==
  CASE self.tag = "Foundation" -> "foundation"
    [] self.tag = "Morden" -> "testnet"
    [] self.tag = "Ropsten" -> "ropsten"
    [] self.tag = "Olympic" -> "olympic"
    [] self.tag = "Classic" -> "classic"
    [] self.tag = "Expanse" -> "expanse"
    [] self.tag = "Kovan" -> "kovan"
    [] self.tag = "Dev" -> "dev"
    [] self.tag = "Custom" -> self.custom

\* impl fmt::Display for SpecType
SpecType_fmt(self) ==
  CASE self.tag = "Foundation" -> "foundation"
    [] self.tag = "Morden" -> "morden"
    [] self.tag = "Ropsten" -> "ropsten"
    [] self.tag = "Olympic" -> "olympic"
    [] self.tag = "Classic" -> "classic"
    [] self.tag = "Expanse" -> "expanse"
    [] self.tag = "Kovan" -> "kovan"
    [] self.tag = "Dev" -> "dev"
    [] self.tag = "Custom" -> self.custom

(***************************************************************************)
(* SpecType::spec.  The file system and the specification loader are the   *)
(* environment: open is the outcome of fs::File::open, load the outcome of *)
(* Spec::load on the opened file.                                          *)
(***************************************************************************)
IoErrors == {"NotFound", "PermissionDenied"}

OpenOutcomes == {Ok("file")} \cup {Err(e) : e \in IoErrors}

LoadErrors == {"missing field engine", "EOF while parsing a value"}

LoadOutcomes == {Ok([spec |-> "loaded"])} \cup {Err(e) : e \in LoadErrors}

\* The compiled-in specification each built-in arm constructs.
CompiledIn(tag) ==
  CASE tag = "Foundation" -> [spec |-> "ethereum::new_foundation"]
    [] tag = "Morden" -> [spec |-> "ethereum::new_morden"]
    [] tag = "Ropsten" -> [spec |-> "ethereum::new_ropsten"]
    [] tag = "Olympic" -> [spec |-> "ethereum::new_olympic"]
    [] tag = "Classic" -> [spec |-> "ethereum::new_classic"]
    [] tag = "Expanse" -> [spec |-> "ethereum::new_expanse"]
    [] tag = "Kovan" -> [spec |-> "ethereum::new_kovan"]
    [] tag = "Dev" -> [spec |-> "Spec::new_instant"]

\* Whether spec() reaches the call of Spec::load.
SpecType_spec_loads(self, open) == self.tag = "Custom" /\ open.ok

\* SpecType_spec handing the I/O error of a failed open to the caller.
SpecType_spec_IoDetail(self, open, load) ==
  IF self.tag # "Custom" THEN Ok(CompiledIn(self.tag))
  ELSE IF ~open.ok THEN Err(open.err)
  ELSE load

SpecType_spec(self, open, load) ==
  IF self.tag # "Custom" THEN Ok(CompiledIn(self.tag))
  ELSE IF ~open.ok THEN Err("Could not load specification file.")
  ELSE load

(***************************************************************************)
(* util::journaldb::Algorithm and enum Pruning                             *)
(***************************************************************************)
Algorithms == {"Archive", "EarlyMerge", "OverlayRecent", "RefCounted"}

\* impl FromStr for Algorithm (the algorithm-name parser)
Algorithm_from_str(s) ==
  CASE s = "archive" -> Ok("Archive")
    [] s = "light" -> Ok("EarlyMerge")
    [] s = "fast" -> Ok("OverlayRecent")
    [] s = "basic" -> Ok("RefCounted")
    [] OTHER -> Err("Invalid algorithm: " \o s)

Specific(a) == [tag |-> "Specific", algo |-> a]

Auto == [tag |-> "Auto"]

PruningSet == {Auto} \cup {Specific(a) : a \in Algorithms}

\* Result::map(Pruning::Specific)
MapSpecific(r) == IF r.ok THEN Ok(Specific(r.val)) ELSE r

\* Pruning_from_str without the "auto" arm: every text goes to the
\* algorithm-name parser.
Pruning_from_str_NoAuto(s) == MapSpecific(Algorithm_from_str(s))

\* impl FromStr for Pruning
Pruning_from_str(s) ==
  IF s = "auto" THEN Ok(Auto) ELSE MapSpecific(Algorithm_from_str(s))

\* Pruning::to_algorithm
to_algorithm(self, ud) ==
  IF self.tag = "Specific" THEN self.algo ELSE ud.pruning

(***************************************************************************)
(* struct ResealPolicy                                                     *)
(***************************************************************************)
ResealPolicy(own, external) == [own |-> own, external |-> external]

\* impl Default for ResealPolicy
ResealPolicy_default == ResealPolicy(TRUE, TRUE)

\* ResealPolicy_from_str with the pairs of "own" and "ext" exchanged.
ResealPolicy_from_str_Swapped(s) ==
  CASE s = "none" -> Ok(ResealPolicy(FALSE, FALSE))
    [] s = "own" -> Ok(ResealPolicy(FALSE, TRUE))
    [] s = "ext" -> Ok(ResealPolicy(TRUE, FALSE))
    [] s = "all" -> Ok(ResealPolicy(TRUE, TRUE))
    [] OTHER -> Err("Invalid reseal value: " \o s)

\* impl FromStr for ResealPolicy
ResealPolicy_from_str(s) ==
  CASE s = "none" -> Ok(ResealPolicy(FALSE, FALSE))
    [] s = "own" -> Ok(ResealPolicy(TRUE, FALSE))
    [] s = "ext" -> Ok(ResealPolicy(FALSE, TRUE))
    [] s = "all" -> Ok(ResealPolicy(TRUE, TRUE))
    [] OTHER -> Err("Invalid reseal value: " \o s)

(***************************************************************************)
(* enum Switch                                                             *)
(***************************************************************************)
Switches == {"On", "Off", "Auto"}

\* impl FromStr for Switch
Switch_from_str(s) ==
  CASE s = "on" -> Ok("On")
    [] s = "off" -> Ok("Off")
    [] s = "auto" -> Ok("Auto")
    [] OTHER -> Err("Invalid switch value: " \o s)

(***************************************************************************)
(* ethcore::client::Mode and user_defaults::UserDefaults                   *)
(***************************************************************************)
Durations == 1..MaxDuration

Modes ==
  {[tag |-> "Active"], [tag |-> "Off"]}
    \cup {[tag |-> "Dark", timeout |-> d] : d \in Durations}
    \cup {[tag |-> "Passive", timeout |-> d, alarm |-> e] :
            d \in Durations, e \in Durations}

OptionModes == {None} \cup {Some(m) : m \in Modes}

UserDefaultsSet ==
  [is_first_launch : BOOLEAN, pruning : Algorithms, tracing : BOOLEAN,
   fat_db : BOOLEAN, mode : Modes]

(***************************************************************************)
(* The resolution functions.  A match takes the first arm that fits.       *)
(***************************************************************************)
\* tracing_switch_to_bool with the (_, On, _) arm moved to the top, so that
\* the resync arm is never taken.
tracing_switch_to_bool_OnFirst(switch, ud) ==
  IF switch = "On" THEN Ok(TRUE)
  ELSE IF ~ud.is_first_launch /\ switch = "On" /\ ~ud.tracing
    THEN Err("TraceDB resync required")
  ELSE IF switch = "Off" THEN Ok(FALSE)
  ELSE Ok(ud.tracing)

tracing_switch_to_bool(switch, ud) ==
  IF ~ud.is_first_launch /\ switch = "On" /\ ~ud.tracing
    THEN Err("TraceDB resync required")
  ELSE IF switch = "On" THEN Ok(TRUE)
  ELSE IF switch = "Off" THEN Ok(FALSE)
  ELSE Ok(ud.tracing)

\* fatdb_switch_to_bool copied from the tracing resolver with the Auto arm
\* still reading the tracing flag.
fatdb_switch_to_bool_ReadsTracing(switch, ud, algorithm) ==
  IF ~ud.is_first_launch /\ switch = "On" /\ ~ud.fat_db
    THEN Err("FatDB resync required")
  ELSE IF switch = "On" THEN Ok(TRUE)
  ELSE IF switch = "Off" THEN Ok(FALSE)
  ELSE Ok(ud.tracing)

\* fatdb_switch_to_bool rejecting an enabled fat database under any pruning
\* algorithm but Archive.
fatdb_switch_to_bool_ChecksAlgorithm(switch, ud, algorithm) ==
  IF ~ud.is_first_launch /\ switch = "On" /\ ~ud.fat_db
    THEN Err("FatDB resync required")
  ELSE IF (switch = "On" \/ (switch = "Auto" /\ ud.fat_db))
            /\ algorithm # "Archive"
    THEN Err("Fat DB is not supported with the chosen pruning option")
  ELSE IF switch = "On" THEN Ok(TRUE)
  ELSE IF switch = "Off" THEN Ok(FALSE)
  ELSE Ok(ud.fat_db)

\* fatdb_switch_to_bool without the resync arm.
fatdb_switch_to_bool_NoResync(switch, ud, algorithm) ==
  IF switch = "On" THEN Ok(TRUE)
  ELSE IF switch = "Off" THEN Ok(FALSE)
  ELSE Ok(ud.fat_db)

fatdb_switch_to_bool(switch, ud, algorithm) ==
  IF ~ud.is_first_launch /\ switch = "On" /\ ~ud.fat_db
    THEN Err("FatDB resync required")
  ELSE IF switch = "On" THEN Ok(TRUE)
  ELSE IF switch = "Off" THEN Ok(FALSE)
  ELSE Ok(ud.fat_db)

\* mode_switch_to_bool returning the persisted mode whatever was requested.
mode_switch_to_bool_Persisted(switch, ud) == Ok(ud.mode)

mode_switch_to_bool(switch, ud) ==
  Ok(IF switch.some THEN switch.val ELSE ud.mode)

(***************************************************************************)
(* State machine.  One call is in progress at a time: an action applies a  *)
(* function to its inputs and records the call and its result; Return      *)
(* hands the result to the caller.  Only a launch writes the persisted     *)
(* user defaults.                                                          *)
(***************************************************************************)
Idle == [op |-> "idle"]

NoResult == [pending |-> TRUE]

Init ==
  /\ user_defaults \in UserDefaultsSet
  /\ call = Idle
  /\ result = NoResult

ParseSpecType ==
  \E s \in Tokens :
    /\ call = Idle
    /\ call' = [op |-> "SpecType::from_str", s |-> s]
    /\ result' = SpecType_from_str(s)
    /\ UNCHANGED user_defaults

DisplaySpecType ==
  \E v \in SpecTypeSet :
    /\ call = Idle
    /\ call' = [op |-> "SpecType::fmt", self |-> v]
    /\ result' = SpecType_fmt(v)
    /\ UNCHANGED user_defaults

LoadSpec ==
  \E v \in SpecTypeSet, open \in OpenOutcomes, load \in LoadOutcomes :
    /\ call = Idle
    /\ call' = [op |-> "SpecType::spec", self |-> v, open |-> open,
                load |-> load, loaded |-> SpecType_spec_loads(v, open)]
    /\ result' = SpecType_spec(v, open, load)
    /\ UNCHANGED user_defaults

ParsePruning ==
  \E s \in Tokens :
    /\ call = Idle
    /\ call' = [op |-> "Pruning::from_str", s |-> s]
    /\ result' = Pruning_from_str(s)
    /\ UNCHANGED user_defaults

ToAlgorithm ==
  \E p \in PruningSet :
    /\ call = Idle
    /\ call' = [op |-> "Pruning::to_algorithm", self |-> p,
                ud |-> user_defaults]
    /\ result' = to_algorithm(p, user_defaults)
    /\ UNCHANGED user_defaults

ParseResealPolicy ==
  \E s \in Tokens :
    /\ call = Idle
    /\ call' = [op |-> "ResealPolicy::from_str", s |-> s]
    /\ result' = ResealPolicy_from_str(s)
    /\ UNCHANGED user_defaults

DefaultResealPolicy ==
  /\ call = Idle
  /\ call' = [op |-> "ResealPolicy::default"]
  /\ result' = ResealPolicy_default
  /\ UNCHANGED user_defaults

ParseSwitch ==
  \E s \in Tokens :
    /\ call = Idle
    /\ call' = [op |-> "Switch::from_str", s |-> s]
    /\ result' = Switch_from_str(s)
    /\ UNCHANGED user_defaults

TracingSwitch ==
  \E switch \in Switches :
    /\ call = Idle
    /\ call' = [op |-> "tracing_switch_to_bool", switch |-> switch,
                ud |-> user_defaults]
    /\ result' = tracing_switch_to_bool(switch, user_defaults)
    /\ UNCHANGED user_defaults

FatdbSwitch ==
  \E switch \in Switches, algorithm \in Algorithms :
    /\ call = Idle
    /\ call' = [op |-> "fatdb_switch_to_bool", switch |-> switch,
                ud |-> user_defaults, algorithm |-> algorithm]
    /\ result' = fatdb_switch_to_bool(switch, user_defaults, algorithm)
    /\ UNCHANGED user_defaults

ModeSwitch ==
  \E switch \in OptionModes :
    /\ call = Idle
    /\ call' = [op |-> "mode_switch_to_bool", switch |-> switch,
                ud |-> user_defaults]
    /\ result' = mode_switch_to_bool(switch, user_defaults)
    /\ UNCHANGED user_defaults

\* What one start of the node resolves from the requested selectors and the
\* persisted defaults: the first error aborts startup, otherwise the resolved
\* values.
Resolve(tracing, fat_db, pruning, mode, ud) ==
  LET algorithm == to_algorithm(pruning, ud)
      tr == tracing_switch_to_bool(tracing, ud)
      fd == fatdb_switch_to_bool(fat_db, ud, algorithm)
      md == mode_switch_to_bool(mode, ud)
  IN  IF ~tr.ok THEN tr
      ELSE IF ~fd.ok THEN fd
      ELSE IF ~md.ok THEN md
      ELSE Ok([is_first_launch |-> FALSE, pruning |-> algorithm,
               tracing |-> tr.val, fat_db |-> fd.val, mode |-> md.val])

\* A launch: a successful resolution is persisted as the new user defaults
\* (no longer a first launch), a failed one leaves them as they were.
Launch ==
  \E tracing \in Switches, fat_db \in Switches, pruning \in PruningSet,
     mode \in OptionModes :
    LET r == Resolve(tracing, fat_db, pruning, mode, user_defaults)
    IN  /\ call = Idle
        /\ call' = [op |-> "launch", tracing |-> tracing, fat_db |-> fat_db,
                    pruning |-> pruning, mode |-> mode, ud |-> user_defaults]
        /\ result' = r
        /\ user_defaults' = IF r.ok THEN r.val ELSE user_defaults

Return ==
  /\ call # Idle
  /\ call' = Idle
  /\ result' = NoResult
  /\ UNCHANGED user_defaults

Next ==
  \/ ParseSpecType
  \/ DisplaySpecType
  \/ LoadSpec
  \/ ParsePruning
  \/ ToAlgorithm
  \/ ParseResealPolicy
  \/ DefaultResealPolicy
  \/ ParseSwitch
  \/ TracingSwitch
  \/ FatdbSwitch
  \/ ModeSwitch
  \/ Launch
  \/ Return

Spec == Init /\ [][Next]_vars

(***************************************************************************)
(* Properties.                                                             *)
(***************************************************************************)

\* The result the decision table gives for (is_first_launch, switch, flag);
\* "error" stands for the one rejected combination.
Table(first, switch, flag) ==
  IF switch = "Off" THEN "false"
  ELSE IF switch = "Auto" THEN (IF flag THEN "true" ELSE "false")
  ELSE IF ~first /\ ~flag THEN "error"
  ELSE "true"

\* A Result<bool, String> as an entry of the decision table.
Entry(r) == IF ~r.ok THEN "error" ELSE IF r.val THEN "true" ELSE "false"

\* C1: tracing_switch_to_bool matches the decision table on all twelve
\* combinations of (is_first_launch, switch, tracing): Off gives Ok(false),
\* Auto gives Ok(tracing), On gives Ok(true), except that
\* (false, On, false) is an error and is the only combination that is.
C1_TracingDecisionTable ==
  call.op = "tracing_switch_to_bool" =>
    /\ Entry(result) = Table(call.ud.is_first_launch, call.switch,
                             call.ud.tracing)
    /\ ~result.ok <=>
         (~call.ud.is_first_launch /\ call.switch = "On" /\ ~call.ud.tracing)

C1_Witness ==
  /\ call.op = "tracing_switch_to_bool"
  /\ call.switch = "On"
  /\ ~call.ud.is_first_launch
  /\ ~call.ud.tracing
  /\ result = Err("TraceDB resync required")

\* C2: fatdb_switch_to_bool follows the decision table of
\* tracing_switch_to_bool with the persisted fat_db flag in place of the
\* tracing flag: the same outcome as the tracing resolver on defaults whose
\* tracing flag holds the fat_db value, an error only for (false, On, false).
C2_FatdbSameTable ==
  call.op = "fatdb_switch_to_bool" =>
    /\ Entry(result) =
         Entry(tracing_switch_to_bool(call.switch,
                 [call.ud EXCEPT !.tracing = call.ud.fat_db]))
    /\ Entry(result) = Table(call.ud.is_first_launch, call.switch,
                             call.ud.fat_db)
    /\ ~result.ok <=>
         (~call.ud.is_first_launch /\ call.switch = "On" /\ ~call.ud.fat_db)

C2_Witness ==
  /\ call.op = "fatdb_switch_to_bool"
  /\ call.switch = "Auto"
  /\ call.ud.fat_db
  /\ ~call.ud.tracing
  /\ result = Ok(TRUE)

\* C3: the two resolvers are independent and the extra parameter is inert:
\* user defaults that agree on is_first_launch and tracing give the tracing
\* resolver's result whatever else they hold; user defaults that agree on
\* is_first_launch and fat_db give the fat-db resolver's result whatever the
\* tracing flag and whatever algorithm is passed.
C3_Independent ==
  /\ call.op = "tracing_switch_to_bool" =>
       \A ud2 \in UserDefaultsSet :
         (/\ ud2.is_first_launch = call.ud.is_first_launch
          /\ ud2.tracing = call.ud.tracing)
           => tracing_switch_to_bool(call.switch, ud2) = result
  /\ call.op = "fatdb_switch_to_bool" =>
       \A ud2 \in UserDefaultsSet, algorithm2 \in Algorithms :
         (/\ ud2.is_first_launch = call.ud.is_first_launch
          /\ ud2.fat_db = call.ud.fat_db)
           => fatdb_switch_to_bool(call.switch, ud2, algorithm2) = result

C3_Witness ==
  /\ call.op = "fatdb_switch_to_bool"
  /\ call.switch = "On"
  /\ call.algorithm = "OverlayRecent"
  /\ call.ud.is_first_launch
  /\ call.ud.tracing
  /\ ~call.ud.fat_db
  /\ result = Ok(TRUE)

\* The variant the alias groups give a text, "Custom" for a text of no group.
AliasGroup(s) ==
  IF s \in {"foundation", "frontier", "homestead", "mainnet"} THEN "Foundation"
  ELSE IF s \in {"frontier-dogmatic", "homestead-dogmatic", "classic"}
    THEN "Classic"
  ELSE IF s \in {"morden", "classic-testnet"} THEN "Morden"
  ELSE IF s \in {"kovan", "testnet"} THEN "Kovan"
  ELSE IF s = "ropsten" THEN "Ropsten"
  ELSE IF s = "olympic" THEN "Olympic"
  ELSE IF s = "expanse" THEN "Expanse"
  ELSE IF s = "dev" THEN "Dev"
  ELSE "Custom"

\* C4: parsing a SpecType never fails; the aliases of a group all give the
\* group's variant, texts of different groups give different variants, and
\* every other text s gives Custom(s) with s unchanged.
C4_SpecTypeParsing ==
  call.op = "SpecType::from_str" =>
    /\ result.ok
    /\ result.val.tag = AliasGroup(call.s)
    /\ AliasGroup(call.s) = "Custom" => result.val = Custom(call.s)
    /\ AliasGroup(call.s) # "Custom" => result.val = Builtin(AliasGroup(call.s))
    /\ \A t \in Tokens :
         (SpecType_from_str(t) = result) <=>
           (/\ AliasGroup(t) = AliasGroup(call.s)
            /\ AliasGroup(t) = "Custom" => t = call.s)

C4_Witness ==
  /\ call.op = "SpecType::from_str"
  /\ call.s = "testnet"
  /\ result = Ok(Builtin("Kovan"))

\* C5: rendering is the canonical inverse of parsing: a built-in variant
\* renders as one of its own aliases and parses back to itself, Custom(s)
\* renders as s, and parsing the rendering of a parse result gives that
\* result again.
C5_RenderInvertsParse ==
  /\ call.op = "SpecType::fmt" =>
       IF call.self.tag \in BuiltinTags
         THEN /\ result \in SpecAliases
              /\ AliasGroup(result) = call.self.tag
              /\ SpecType_from_str(result) = Ok(call.self)
         ELSE result = call.self.custom
  /\ call.op = "SpecType::from_str" =>
       SpecType_from_str(SpecType_fmt(result.val)) = result

C5_Witness ==
  /\ call.op = "SpecType::from_str"
  /\ call.s = "classic-testnet"
  /\ SpecType_fmt(result.val) = "morden"

\* C6: "auto" parses to Auto, which resolves to the persisted pruning
\* algorithm; "archive", "light", "fast", "basic" parse to Specific of
\* Archive, EarlyMerge, OverlayRecent, RefCounted, one each, and Specific(a)
\* resolves to a whatever is persisted; any other text is a parse error;
\* to_algorithm always yields an algorithm.
C6_PruningResolution ==
  /\ call.op = "Pruning::from_str" =>
       /\ call.s = "auto" => result = Ok(Auto)
       /\ call.s = "archive" => result = Ok(Specific("Archive"))
       /\ call.s = "light" => result = Ok(Specific("EarlyMerge"))
       /\ call.s = "fast" => result = Ok(Specific("OverlayRecent"))
       /\ call.s = "basic" => result = Ok(Specific("RefCounted"))
       /\ call.s \notin PruningTokens => ~result.ok
       /\ \A t \in PruningTokens :
            Pruning_from_str(t) = result => t = call.s
  /\ call.op = "Pruning::to_algorithm" =>
       /\ result \in Algorithms
       /\ call.self = Auto => result = call.ud.pruning
       /\ \A a \in Algorithms : call.self = Specific(a) => result = a

C6_Witness ==
  /\ call.op = "Pruning::from_str"
  /\ call.s = "auto"
  /\ result = Ok(Auto)

\* C7: "none", "own", "ext", "all" parse to the (own, external) pairs
\* (false,false), (true,false), (false,true), (true,true), which are all four
\* pairs, each once; every other text is an error naming the text; the
\* default policy is the one "all" parses to.
C7_ResealPolicyParsing ==
  /\ call.op = "ResealPolicy::from_str" =>
       /\ call.s = "none" => result = Ok([own |-> FALSE, external |-> FALSE])
       /\ call.s = "own" => result = Ok([own |-> TRUE, external |-> FALSE])
       /\ call.s = "ext" => result = Ok([own |-> FALSE, external |-> TRUE])
       /\ call.s = "all" => result = Ok([own |-> TRUE, external |-> TRUE])
       /\ call.s \notin ResealTokens =>
            result = Err("Invalid reseal value: " \o call.s)
       /\ {ResealPolicy_from_str(t).val : t \in ResealTokens}
            = [own : BOOLEAN, external : BOOLEAN]
  /\ call.op = "ResealPolicy::default" =>
       Ok(result) = ResealPolicy_from_str("all")

C7_Witness ==
  /\ call.op = "ResealPolicy::from_str"
  /\ call.s = "ext"
  /\ result = Ok([own |-> FALSE, external |-> TRUE])

\* C8: mode_switch_to_bool never fails; a requested mode is returned whatever
\* mode is persisted, and without a requested mode the persisted one is
\* returned.
C8_ModeResolution ==
  call.op = "mode_switch_to_bool" =>
    /\ result.ok
    /\ call.switch.some => result.val = call.switch.val
    /\ ~call.switch.some => result.val = call.ud.mode

C8_Witness ==
  /\ call.op = "mode_switch_to_bool"
  /\ call.switch.some
  /\ call.switch.val # call.ud.mode
  /\ result = Ok(call.switch.val)

\* C9: spec() succeeds for every built-in variant whatever the file system
\* holds; for Custom(path), a failed open gives the fixed message "Could not
\* load specification file." without calling the loader, and a successful
\* open gives exactly the loader's result; the outcome is always a Result
\* value.
C9_SpecLoading ==
  call.op = "SpecType::spec" =>
    /\ result.ok \in BOOLEAN
    /\ call.self.tag \in BuiltinTags => (result.ok /\ ~call.loaded)
    /\ (call.self.tag = "Custom" /\ ~call.open.ok) =>
         (/\ result = Err("Could not load specification file.")
          /\ ~call.loaded)
    /\ (call.self.tag = "Custom" /\ call.open.ok) =>
         (result = call.load /\ call.loaded)

C9_Witness ==
  /\ call.op = "SpecType::spec"
  /\ call.self = Custom("chain1.json")
  /\ call.open = Err("PermissionDenied")
  /\ result = Err("Could not load specification file.")

\* What C10 asks of the result of a resolver called with the flag persisted
\* as flag: no error on a first launch, and no Ok(true) when the flag is off
\* on a later launch.
FlagSafe(first, flag, r) ==
  /\ first => r.ok
  /\ (~first /\ ~flag) => (~r.ok \/ r.val = FALSE)

\* C10: over any sequence of launches with arbitrary requested switches, a
\* feature flag that is off is never turned on by a launch that is not the
\* first; with is_first_launch false and the flag off both resolvers return
\* Ok(false) or the resync error, never Ok(true); on a first launch neither
\* resolver returns an error.
C10_NoEnableAfterFirstLaunch ==
  [][/\ (~user_defaults.is_first_launch /\ ~user_defaults.tracing)
          => ~user_defaults'.tracing
     /\ (~user_defaults.is_first_launch /\ ~user_defaults.fat_db)
          => ~user_defaults'.fat_db
     /\ call'.op = "tracing_switch_to_bool" =>
          FlagSafe(call'.ud.is_first_launch, call'.ud.tracing, result')
     /\ call'.op = "fatdb_switch_to_bool" =>
          FlagSafe(call'.ud.is_first_launch, call'.ud.fat_db, result')
     /\ (call'.op = "launch" /\ call'.ud.is_first_launch) => result'.ok
    ]_vars

C10_Witness ==
  /\ call.op = "launch"
  /\ call.fat_db = "On"
  /\ ~call.ud.is_first_launch
  /\ ~call.ud.fat_db
  /\ result = Err("FatDB resync required")
  /\ user_defaults = call.ud

====
